---- MODULE Spec2Model ----
(***************************************************************************)
(* NotesSync: the offline-first synchronisation engine.                    *)
(*                                                                         *)
(* The local durable store (IndexedDB stores "notes" and "syncQueue"), the *)
(* remote collection, the push phase syncNotesWithServer, the pull phase   *)
(* pullNotesFromServer, and the two hooks that start passes: useSync       *)
(* (performSync) and useNotes (syncNotes, loadNotes).                      *)
(*                                                                         *)
(* One step of the model is the code that runs between two awaits of one   *)
(* asynchronous function. A step that ends an await on IndexedDB takes     *)
(* effect when the transaction is served, a step that ends an await on the *)
(* remote when the remote serves the request; the continuation of the      *)
(* function runs later, so steps of other activities come in between.      *)
(* Event listeners run inside the step that dispatches the event.          *)
(***************************************************************************)
EXTENDS Integers, Sequences, FiniteSets, TLC

\* ---------------------------------------------------------------- bounds
\* Number of note ids (crypto.randomUUID() values) that may ever be created.
NumIds == 2
\* Last value of the clock: every timestamp taken advances the clock by one.
MaxClock == 3
\* Number of changes other devices make to the remote collection.
MaxRemoteOps == 1
\* Last key the auto-increment generator of "syncQueue" hands out.
MaxKey == 3
\* Number of passes (performSync or syncNotes getting past its guard) that start.
MaxPasses == 2
\* calls of the resolver on one pair of notes
MaxResolves == 3

Ids == 1..NumIds

\* The values the note editor can store: a trimmed title or "Untitled", a
\* trimmed content or " ".
Titles == {"Untitled", "A"}
Contents == {" ", "x"}
\* The edits of the model: one changes the title, one the content of a new note.
Edits == {<<"A", " ">>, <<"Untitled", "x">>}

\* The three asynchronous activities that touch the stores: the initial load
\* of useNotes, a pass of useNotes.syncNotes, a pass of useSync.performSync.
Procs == {"load", "notes", "sync"}
Passes == {"notes", "sync"}

VARIABLES
    notes,            \* IndexedDB store "notes": id -> record
    syncQueue,        \* IndexedDB store "syncQueue", in key order
    nextKey,          \* the auto-increment key generator of "syncQueue"
    server,           \* the remote collection: id -> row
    online,           \* navigator.onLine
    configured,       \* API_BASE and API_KEY are both set
    mounted,          \* the hooks are mounted (their effects have not been cleaned up)
    resolution,       \* a call of getResolutionStrategy by other code: arguments, result
    faults,           \* the remote may answer with failures
    clock,            \* the current time
    usedIds,          \* ids already generated by some device
    remoteOps,        \* changes made by other devices so far
    passes,           \* passes started so far
    isSyncingRefS,    \* useSync: isSyncingRef.current
    isSyncingRefN,    \* useNotes: isSyncingRef.current
    syncStatus,       \* useSync: syncStatus
    syncError,        \* useSync: syncError ("null" or the message)
    events,           \* the events the last run of syncNotesWithServer of each pass dispatched
    syncTimeout,      \* useNotes: the debounce timers of modifyNote that are pending
    retryTimer,       \* useSync: the 5 s timer of performSync's catch is pending
    pc,               \* position of each activity
    queue,            \* push phase: the entries of `queue` not yet processed
    drained,          \* push phase: queue.length, the number of entries read at the start
    conflictingNote,  \* push phase: result of checkConflict for the current item
    stats,            \* push phase: {synced, failed, conflicts}
    response,         \* push phase: the response to the last remote call of the loop
    serverNotes,      \* pull phase: the fetched listing
    localNotes,       \* pull phase: the local snapshot read by getAllNotes
    todo,             \* pull phase: ids the running loop still has to write
    listing           \* pull phase: how fetchNotes produced serverNotes

dbVars   == <<notes, syncQueue, nextKey>>
envVars  == <<online, configured, mounted, faults, usedIds, remoteOps, resolution>>
\* (passes is changed by the handlers that start a pass)
hookVars == <<isSyncingRefS, isSyncingRefN, syncStatus, syncError, events, syncTimeout, retryTimer>>
pushVars == <<queue, drained, conflictingNote, stats, response>>
pullVars == <<serverNotes, localNotes, todo, listing>>
vars == <<notes, syncQueue, nextKey, server, online, configured, mounted, resolution, faults,
          clock,
          usedIds, remoteOps, passes, isSyncingRefS, isSyncingRefN, syncStatus, syncError, events,
          syncTimeout, retryTimer, pc, queue, drained, conflictingNote, stats, response,
          serverNotes,
          localNotes, todo, listing>>

\* ------------------------------------------------------------ data helpers
\* "no note": the null of checkConflict. Real timestamps start at 1.
NoNote == [title |-> "null", content |-> "null", modified_at |-> 0]
NoStats == [synced |-> 0, failed |-> 0, conflicts |-> 0]
EmptyMap == [i \in {} |-> NoNote]

\* String.prototype.trim on the values of the model: " " is the only value
\* that has leading or trailing white space.
Trim(s) == IF s = " " THEN "" ELSE s

\* A row as the remote stores it ({synced, ...noteData}: synced is dropped).
Row(note) == [title |-> note.title, content |-> note.content,
              modified_at |-> note.modified_at]
\* A local record made from a remote row: { ...serverNote, synced: true }.
Synced(row) == [title |-> row.title, content |-> row.content,
                modified_at |-> row.modified_at, synced |-> TRUE]

Put(f, id, v) == [i \in (DOMAIN f) \cup {id} |-> IF i = id THEN v ELSE f[i]]
Del(f, id) == [i \in (DOMAIN f) \ {id} |-> f[i]]

\* ------------------------------------------------------- the local database
\* A queue that puts a new entry before the pending ones: the variant that
\* C8 tells apart from addToSyncQueue.
addToSyncQueueFirst(q, key, operation, id, note, now) ==
    <<[id |-> key, operation |-> operation, noteId |-> id,
       note |-> note, timestamp |-> now]>> \o q

\* addToSyncQueue: store.add({operation, note, timestamp}) under the next key.
addToSyncQueue(q, key, operation, id, note, now) ==
    Append(q, [id |-> key, operation |-> operation, noteId |-> id,
               note |-> note, timestamp |-> now])

\* getSyncQueue: store.getAll(), the entries in key order; nothing is removed.
getSyncQueue(q) == q

\* removeSyncQueueItem: store.delete(key); deleting an absent key is no error.
removeSyncQueueItem(q, key) == SelectSeq(q, LAMBDA e : e.id # key)

\* addNote: the record is stored with synced forced to false.
noteToAdd(note) == [note EXCEPT !.synced = FALSE]

\* updateNote: store.put; a record that carries synced = true is not queued.
updateNoteQueues(note) == ~note.synced

\* getAllNotes: the records of the owner (sorted by modified_at, newest first:
\* see NewestOf).
getAllNotes(ns) == ns

\* The id of the newest record among ids, by the modified_at of the snapshot.
NewestOf(snapshot, ids) ==
    CHOOSE i \in ids : \A j \in ids :
        \/ snapshot[j].modified_at < snapshot[i].modified_at
        \/ (snapshot[j].modified_at = snapshot[i].modified_at /\ j >= i)

\* ------------------------------------------------------ the remote gateway
\* createNoteOnServer / updateNoteOnServer send trim(title) || "Untitled" and
\* trim(content) || " ".
SentTitle(note) == IF Trim(note.title) = "" THEN "Untitled" ELSE Trim(note.title)
SentContent(note) == IF Trim(note.content) = "" THEN " " ELSE Trim(note.content)
SentRow(note) == [title |-> SentTitle(note), content |-> SentContent(note),
                  modified_at |-> note.modified_at]

\* POST: the remote collection after a successful create.
createNoteOnServer(srv, id, note) == Put(srv, id, SentRow(note))

\* PATCH ...?id=eq.<id>: the row is changed when it exists; when no row
\* matches, the answer is an empty list and the function returns the local note
\* without throwing.
updateNoteOnServer(srv, id, note) ==
    IF id \in DOMAIN srv THEN Put(srv, id, SentRow(note)) ELSE srv

\* DELETE ...?id=eq.<id>: a missing row is a success.
deleteNoteOnServer(srv, id) == Del(srv, id)

\* checkConflict: null when unconfigured, when the request fails, when the
\* remote has no such row; otherwise the row only if it is strictly newer.
checkConflict(srv, id, note, reachable) ==
    IF ~reachable \/ id \notin DOMAIN srv THEN NoNote
    ELSE IF srv[id].modified_at > note.modified_at THEN srv[id]
    ELSE NoNote

\* ---------------------------------------------------- the conflict resolver
\* A detector that looks at the timestamps instead of the titles.
detectConflictByTime(localNote, serverNote) ==
    \/ localNote.content # serverNote.content
    \/ localNote.modified_at # serverNote.modified_at

detectConflict(localNote, serverNote) ==
    localNote.content # serverNote.content \/ localNote.title # serverNote.title

\* A resolver that keeps the remote title and content: the variant that C6
\* tells apart from resolveConflictLocalWins.
resolveConflictKeepsRemote(localNote, serverNote, now) ==
    [localNote EXCEPT !.title = serverNote.title,
                      !.content = serverNote.content,
                      !.modified_at = serverNote.modified_at]

\* { ...localNote, modified_at: new Date().toISOString() }
resolveConflictLocalWins(localNote, serverNote, now) ==
    [localNote EXCEPT !.modified_at = now]

\* getResolutionStrategy(note, conflictingNote, "local-wins")
getResolutionStrategy(localNote, serverNote, now) ==
    IF ~detectConflict(localNote, serverNote) THEN localNote
    ELSE resolveConflictLocalWins(localNote, serverNote, now)

\* Texts passed to the merge are sequences of words. includes: t occurs in s
\* as a contiguous part.
includes(s, t) ==
    \E i \in 1..(Len(s) + 1) :
       /\ i + Len(t) - 1 <= Len(s)
       /\ \A j \in 1..Len(t) : s[i + j - 1] = t[j]

\* "\n\n--- Local changes ---\n"
Separator == <<"--- Local changes ---">>

\* return serverNote
resolveConflictServerWins(localNote, serverNote) == serverNote

\* A merge that puts the local content first.
resolveConflictMergeLocalFirst(localNote, serverNote, now) ==
    [localNote EXCEPT
       !.content = IF localNote.content # serverNote.content
                   THEN localNote.content \o Separator \o serverNote.content
                   ELSE serverNote.content,
       !.title = IF localNote.title # "" THEN localNote.title ELSE serverNote.title,
       !.modified_at = now]

\* resolveConflictMerge: mergedContent, title: localNote.title ||
\* serverNote.title, modified_at: new Date()
resolveConflictMerge(localNote, serverNote, now) ==
    LET mergedContent ==
          IF localNote.content # serverNote.content
          THEN IF ~includes(localNote.content, serverNote.content)
               THEN serverNote.content \o Separator \o localNote.content
               ELSE localNote.content
          ELSE serverNote.content
    IN [localNote EXCEPT
          !.content = mergedContent,
          !.title = IF localNote.title # "" THEN localNote.title ELSE serverNote.title,
          !.modified_at = now]

\* getResolutionStrategy(localNote, serverNote, userPreference)
getResolutionStrategyFor(localNote, serverNote, userPreference, now) ==
    IF ~detectConflict(localNote, serverNote) THEN localNote
    ELSE IF userPreference = "local-wins"
    THEN resolveConflictLocalWins(localNote, serverNote, now)
    ELSE IF userPreference = "server-wins"
    THEN resolveConflictServerWins(localNote, serverNote)
    ELSE IF userPreference = "merge"
    THEN resolveConflictMerge(localNote, serverNote, now)
    ELSE localNote

\* ------------------------------------------------------- gateway errors
\* A response that is not ok: its status and the `message` field of its JSON
\* body ("" when the body is not JSON or has no message). Status "0" stands for
\* a fetch that threw (no response), "200" for a response that is ok.
NoResponse == [status |-> "200", message |-> ""]
Responses(answer) ==
    IF answer = "notFound"
    THEN {[status |-> "404", message |-> ""], [status |-> "404", message |-> "no such row"]}
    ELSE {[status |-> "0", message |-> ""]}

\* handleApiError: the message of the error it throws, as its words.
handleApiError(resp, operation) ==
    IF resp.message # ""
    THEN <<operation, "failed:", resp.message>>
    ELSE <<operation, "failed:", resp.status, "statusText">>

\* The message of the error a gateway call throws: when the gateway is not
\* configured no request is made; else it depends on the response.
ErrorOf(resp, operation) ==
    IF ~configured THEN <<"API not configured.", "Check environment variables.">>
    ELSE IF resp.status = "0" THEN <<"Failed to fetch">>
    ELSE handleApiError(resp, operation)

\* error.message?.includes(word)
Includes(message, word) == \E i \in 1..Len(message) : message[i] = word

\* The operation name the gateway call of an entry passes to handleApiError.
OperationName(operation, conflict) ==
    IF conflict \/ operation = "update" THEN "Update note"
    ELSE IF operation = "create" THEN "Create note" ELSE "Delete note"

\* --------------------------------------------------------------- the clock
\* new Date() in code that must not block: the next instant, or the last
\* instant of the model once the clock has reached its bound.
Now == IF clock < MaxClock THEN clock + 1 ELSE clock

\* ------------------------------------------------------------------- Init
\* No call of the resolver by other code.
NoResolution == [userPreference |-> "none"]

Init ==
    /\ notes = EmptyMap
    /\ syncQueue = <<>>
    /\ nextKey = 1
    /\ server = EmptyMap
    /\ online \in BOOLEAN
    /\ configured \in BOOLEAN
    /\ mounted = TRUE
    /\ resolution = NoResolution
    /\ faults \in BOOLEAN
    /\ clock = 0
    /\ usedIds = {}
    /\ remoteOps = 0
    /\ passes = 0
    /\ isSyncingRefS = FALSE
    /\ isSyncingRefN = FALSE
    /\ syncStatus = IF online THEN "synced" ELSE "pending"
    /\ syncError = "null"
    /\ events = [p \in Procs |-> <<>>]
    /\ syncTimeout = 0
    /\ retryTimer = FALSE
    /\ pc = [p \in Procs |->
               IF p = "load" THEN (IF online THEN "fetchNotes" ELSE "loadLocal")
               ELSE "idle"]
    /\ queue = [p \in Procs |-> <<>>]
    /\ drained = [p \in Procs |-> 0]
    /\ conflictingNote = [p \in Procs |-> NoNote]
    /\ stats = [p \in Procs |-> NoStats]
    /\ response = [p \in Procs |-> NoResponse]
    /\ serverNotes = [p \in Procs |-> EmptyMap]
    /\ localNotes = [p \in Procs |-> EmptyMap]
    /\ todo = [p \in Procs |-> {}]
    /\ listing = [p \in Procs |-> "none"]

\* ------------------------------------------------------ starting a pass
\* setSyncStatus(v): the state of a component that is unmounted is not updated.
setSyncStatus(v) == IF mounted THEN v ELSE syncStatus
\* setSyncError(v)
setSyncError(v) == IF mounted THEN v ELSE syncError

\* performSync gets past its two early returns. The model tracks one useSync
\* pass: a call made while that pass is still running is not followed.
performSyncStarts(onl) == onl /\ ~isSyncingRefS /\ pc["sync"] = "idle"

\* syncNotes gets past its two early returns.
syncNotesStarts(onl) == onl /\ ~isSyncingRefN

\* The hooks after a handler that called performSync (startS) and / or
\* syncNotes (startN). A pass that starts sets its guard, calls
\* syncNotesWithServer, which dispatches sync:start (handleSyncStart sets the
\* status to "syncing"), and waits for getSyncQueue.
\* loadEnds: the handler is the last step of loadNotes.
Started(startS, startN, loadEnds, statusOtherwise) ==
    /\ pc' = [p \in Procs |->
                IF (p = "sync" /\ startS) \/ (p = "notes" /\ startN)
                THEN "getSyncQueue"
                ELSE IF p = "load" /\ loadEnds THEN "done"
                ELSE pc[p]]
    /\ isSyncingRefS' = (isSyncingRefS \/ startS)
    /\ isSyncingRefN' = (isSyncingRefN \/ startN)
    /\ syncStatus' = IF startS \/ startN THEN "syncing" ELSE statusOtherwise
    /\ syncError' = IF startS \/ startN THEN "null" ELSE syncError
    /\ events' = [p \in Procs |->
                    IF (p = "sync" /\ startS) \/ (p = "notes" /\ startN)
                    THEN <<"sync:start">> ELSE events[p]]

\* The same, and the passes that start are counted.
Handler(startS, startN, loadEnds, statusOtherwise) ==
    /\ passes' = passes + (IF startS THEN 1 ELSE 0) + (IF startN THEN 1 ELSE 0)
    /\ passes' <= MaxPasses
    /\ Started(startS, startN, loadEnds, statusOtherwise)

Trigger(startS, startN, statusOtherwise) ==
    Handler(startS, startN, FALSE, statusOtherwise)

\* The status performSync leaves when it does not start a pass.
performSyncStatus(onl, status) == IF onl THEN status ELSE "pending"

\* IndexedDB serves the transactions on a store in the order of their
\* creation: the getSyncQueue of a pass that has started is served before any
\* write to "syncQueue" that is requested later.
QueueWritable == \A p \in Passes : pc[p] # "getSyncQueue"

\* --------------------------------------------------------- user mutations
\* A clearTimeout that cancels nothing.
clearTimeoutNoop(t) == t

\* The timers pending after clearTimeout(syncTimeoutRef.current) when t are
\* pending: the ref holds the timer set last, which is cancelled if pending.
clearTimeout(t) == IF t > 0 THEN t - 1 ELSE 0

\* syncTimeoutRef.current = setTimeout(..., 500)
setTimeout(t) == t + 1

\* useNotes.createNote: addNote (store.add, then addToSyncQueue("create")),
\* then, if online, clearTimeout and syncNotes().
createNote(id) ==
    /\ mounted
    /\ id \notin usedIds
    /\ clock < MaxClock
    /\ nextKey <= MaxKey
    /\ QueueWritable
    /\ LET note == [title |-> "Untitled", content |-> " ",
                    modified_at |-> clock + 1, synced |-> FALSE]
       IN /\ notes' = Put(notes, id, noteToAdd(note))
          /\ syncQueue' = addToSyncQueue(syncQueue, nextKey, "create", id,
                                         noteToAdd(note), clock + 1)
    /\ nextKey' = nextKey + 1
    /\ clock' = clock + 1
    /\ usedIds' = usedIds \cup {id}
    /\ syncTimeout' = IF online THEN clearTimeout(syncTimeout) ELSE syncTimeout
    /\ retryTimer' = retryTimer
    /\ Trigger(FALSE, syncNotesStarts(online), syncStatus)
    /\ UNCHANGED <<server, online, configured, mounted, resolution, faults, remoteOps, pushVars, pullVars>>

\* useNotes.modifyNote: updateNote({...note, synced: false}) (store.put, then
\* addToSyncQueue("update")), then, if online, the 500 ms timer is restarted.
modifyNote(id, title, content) ==
    /\ mounted
    /\ id \in DOMAIN notes
    /\ clock < MaxClock
    /\ nextKey <= MaxKey
    /\ QueueWritable
    /\ title # notes[id].title \/ content # notes[id].content
    /\ LET note == [title |-> title, content |-> content,
                    modified_at |-> clock + 1, synced |-> FALSE]
       IN /\ notes' = Put(notes, id, note)
          /\ syncQueue' = IF updateNoteQueues(note)
                          THEN addToSyncQueue(syncQueue, nextKey, "update", id,
                                              note, clock + 1)
                          ELSE syncQueue
          /\ nextKey' = IF updateNoteQueues(note) THEN nextKey + 1 ELSE nextKey
    /\ clock' = clock + 1
    /\ syncTimeout' = IF online THEN setTimeout(clearTimeout(syncTimeout))
                    ELSE syncTimeout
    /\ retryTimer' = retryTimer
    /\ UNCHANGED <<passes, server, envVars, isSyncingRefS, isSyncingRefN, syncStatus, syncError, events,
                   pc, pushVars, pullVars>>

\* useNotes.removeNote: deleteNote (store.get, store.delete, then
\* addToSyncQueue("delete", note)), then, if online, clearTimeout and syncNotes().
removeNote(id) ==
    /\ mounted
    /\ id \in DOMAIN notes
    /\ clock < MaxClock
    /\ nextKey <= MaxKey
    /\ QueueWritable
    /\ notes' = Del(notes, id)
    /\ syncQueue' = addToSyncQueue(syncQueue, nextKey, "delete", id, notes[id],
                                   clock + 1)
    /\ nextKey' = nextKey + 1
    /\ clock' = clock + 1
    /\ syncTimeout' = IF online THEN clearTimeout(syncTimeout) ELSE syncTimeout
    /\ retryTimer' = retryTimer
    /\ Trigger(FALSE, syncNotesStarts(online), syncStatus)
    /\ UNCHANGED <<server, envVars, pushVars, pullVars>>

\* The debounce timer of modifyNote fires: syncNotes().
debounceFires ==
    /\ syncTimeout > 0
    /\ syncTimeout' = syncTimeout - 1
    /\ retryTimer' = retryTimer
    /\ Trigger(FALSE, syncNotesStarts(online), syncStatus)
    /\ UNCHANGED <<dbVars, server, envVars, clock, pushVars, pullVars>>

\* ------------------------------------------------------ connectivity, timers
\* The window's online event: useSync.handleOnline (status "syncing", then
\* performSync) and useNotes.handleOnline (syncNotes).
handleOnline ==
    /\ mounted
    /\ ~online
    /\ online' = TRUE
    /\ Trigger(performSyncStarts(TRUE), syncNotesStarts(TRUE), "syncing")
    /\ UNCHANGED <<dbVars, server, configured, mounted, resolution, faults, usedIds, remoteOps, clock,
                   syncTimeout, retryTimer, pushVars, pullVars>>

\* The window's offline event: useSync.handleOffline sets the status "pending".
handleOffline ==
    /\ mounted
    /\ online
    /\ online' = FALSE
    /\ syncStatus' = "pending"
    /\ UNCHANGED <<passes, dbVars, server, configured, mounted, resolution, faults, usedIds, remoteOps, clock,
                   isSyncingRefS, isSyncingRefN, syncError, events, syncTimeout, retryTimer,
                   pc, pushVars, pullVars>>

\* A SYNC_START message of the service worker: performSync().
handleMessage ==
    /\ mounted
    /\ Trigger(performSyncStarts(online), FALSE,
               performSyncStatus(online, syncStatus))
    /\ UNCHANGED <<dbVars, server, envVars, clock, syncTimeout, retryTimer, pushVars, pullVars>>

\* The 30 s interval, which exists while online: performSync() unless the
\* status is "syncing" or the guard is set.
periodicSync ==
    /\ mounted
    /\ online
    /\ syncStatus # "syncing"
    /\ ~isSyncingRefS
    /\ Trigger(performSyncStarts(online), FALSE, syncStatus)
    /\ UNCHANGED <<dbVars, server, envVars, clock, syncTimeout, retryTimer, pushVars, pullVars>>

\* The 30 s interval in a run that is observed without end: the passes it
\* starts are not counted.
periodicSyncForever ==
    /\ mounted
    /\ online
    /\ syncStatus # "syncing"
    /\ ~isSyncingRefS
    /\ performSyncStarts(online)
    /\ Started(TRUE, FALSE, FALSE, syncStatus)
    /\ UNCHANGED <<passes, dbVars, server, envVars, clock, syncTimeout, retryTimer, pushVars,
                   pullVars>>

\* ------------------------------------------------------------ other devices
remoteCreate(id, title, content) ==
    /\ remoteOps < MaxRemoteOps
    /\ clock < MaxClock
    /\ id \notin usedIds
    /\ server' = Put(server, id, [title |-> title, content |-> content,
                                  modified_at |-> clock + 1])
    /\ usedIds' = usedIds \cup {id}
    /\ clock' = clock + 1
    /\ remoteOps' = remoteOps + 1
    /\ UNCHANGED <<passes, dbVars, online, configured, mounted, resolution, faults, hookVars, pc, pushVars,
                   pullVars>>

remoteEdit(id, title, content) ==
    /\ remoteOps < MaxRemoteOps
    /\ clock < MaxClock
    /\ id \in DOMAIN server
    /\ title # server[id].title \/ content # server[id].content
    /\ server' = Put(server, id, [title |-> title, content |-> content,
                                  modified_at |-> clock + 1])
    /\ clock' = clock + 1
    /\ remoteOps' = remoteOps + 1
    /\ UNCHANGED <<passes, dbVars, online, configured, mounted, resolution, faults, usedIds, hookVars, pc,
                   pushVars, pullVars>>

remoteDelete(id) ==
    /\ remoteOps < MaxRemoteOps
    /\ id \in DOMAIN server
    /\ server' = Del(server, id)
    /\ remoteOps' = remoteOps + 1
    /\ UNCHANGED <<passes, dbVars, online, configured, mounted, resolution, faults, usedIds, clock, hookVars,
                   pc, pushVars, pullVars>>

\* ------------------------------------------ the push phase (syncNotesWithServer)
Item(p) == Head(queue[p])

\* Where the loop waits next with `rest` still to process: a delete entry goes
\* straight to its remote call, any other entry to checkConflict; after the
\* last entry syncNotesWithServer returns and the caller calls
\* pullNotesFromServer, which waits for fetchNotes.
PcOfQueue(rest) ==
    IF rest = <<>> THEN "fetchNotes"
    ELSE IF Head(rest).operation = "delete" THEN "remote"
    ELSE "checkConflict"

\* The push loop moves on to `rest` with the counters `st`. When nothing is
\* left, sync:complete is dispatched with the counters as its detail and they
\* are returned to the caller: handleSyncComplete sets the status "synced" and
\* clears the guard of useSync.
Continue(p, rest, st) ==
    /\ pc' = [pc EXCEPT ![p] = PcOfQueue(rest)]
    /\ stats' = [stats EXCEPT ![p] = st]
    /\ queue' = [queue EXCEPT ![p] = rest]
    /\ conflictingNote' = [conflictingNote EXCEPT ![p] = NoNote]
    /\ syncStatus' = IF rest = <<>> THEN setSyncStatus("synced") ELSE syncStatus
    /\ syncError' = IF rest = <<>> THEN setSyncError("null") ELSE syncError
    /\ events' = IF rest = <<>>
                 THEN [events EXCEPT ![p] = Append(@, "sync:complete")] ELSE events
    /\ isSyncingRefS' = IF rest = <<>> THEN FALSE ELSE isSyncingRefS

\* const queue = await getSyncQueue()
GetSyncQueue(p) ==
    /\ pc[p] = "getSyncQueue"
    /\ Continue(p, getSyncQueue(syncQueue), NoStats)
    /\ drained' = [drained EXCEPT ![p] = Len(getSyncQueue(syncQueue))]
    /\ response' = [response EXCEPT ![p] = NoResponse]
    /\ UNCHANGED <<passes, dbVars, server, envVars, clock, isSyncingRefN, syncTimeout, retryTimer,
                   pullVars>>

\* A run of syncNotesWithServer that answers a rejected getSyncQueue by
\* dispatching sync:complete and returning: the variant that C31 tells apart
\* from GetSyncQueueFails.
GetSyncQueueFailsCompletes(p) ==
    /\ pc[p] = "getSyncQueue"
    /\ pc' = [pc EXCEPT ![p] = "fetchNotes"]
    /\ syncStatus' = "synced"
    /\ syncError' = "null"
    /\ events' = [events EXCEPT ![p] = Append(@, "sync:complete")]
    /\ isSyncingRefS' = FALSE
    /\ UNCHANGED <<passes, dbVars, server, envVars, clock, isSyncingRefN, syncTimeout,
                   retryTimer, pushVars, pullVars>>

\* The message of request.error, the error a rejected IndexedDB request carries.
StoreError == "request.error"

\* getSyncQueue rejects (its IndexedDB request fails): the catch of
\* syncNotesWithServer dispatches sync:error (handleSyncError sets the status
\* "error" and clears the guard of useSync) and rethrows. performSync catches:
\* status "error", the 5 s timer is set, and its finally clears the guard.
\* syncNotes catches and logs, and its finally clears the guard of useNotes.
GetSyncQueueFails(p) ==
    /\ pc[p] = "getSyncQueue"
    /\ pc' = [pc EXCEPT ![p] = "idle"]
    /\ syncStatus' = setSyncStatus("error")
    /\ syncError' = setSyncError(StoreError)
    /\ events' = [events EXCEPT ![p] = Append(@, "sync:error")]
    /\ isSyncingRefS' = FALSE
    /\ isSyncingRefN' = IF p = "notes" THEN FALSE ELSE isSyncingRefN
    /\ retryTimer' = IF p = "sync" THEN TRUE ELSE retryTimer
    /\ UNCHANGED <<passes, dbVars, server, envVars, clock, syncTimeout, pushVars, pullVars>>

\* The timer set by the catch of performSync fires: setSyncStatus("pending").
retryFires ==
    /\ retryTimer
    /\ retryTimer' = FALSE
    /\ syncStatus' = setSyncStatus("pending")
    /\ UNCHANGED <<passes, dbVars, server, envVars, clock, isSyncingRefS, isSyncingRefN,
                   syncError, events, syncTimeout, pc, pushVars, pullVars>>

\* The answers a request to the remote can get in the current state.
Answers ==
    IF ~configured \/ ~online THEN {"failed"}
    ELSE IF faults THEN {"ok", "failed", "notFound"}
    ELSE {"ok"}

\* const conflictingNote = await checkConflict(note)
CheckConflict(p) ==
    /\ pc[p] = "checkConflict"
    /\ \E answer \in Answers :
         conflictingNote' = [conflictingNote EXCEPT ![p] =
            checkConflict(server, Item(p).noteId, Item(p).note, answer = "ok")]
    /\ pc' = [pc EXCEPT ![p] = "remote"]
    /\ UNCHANGED <<passes, dbVars, server, envVars, clock, hookVars, queue, drained, stats,
                   response, pullVars>>

\* A catch block that rethrows: the failure of one entry ends the loop.
FailedAborts(p, message) ==
    Continue(p, <<>>, [stats[p] EXCEPT !.failed = @ + 1])

\* A catch block that removes the entry of every failed non-delete operation,
\* whatever the error message.
FailedDropsEntry(p, message) ==
    LET st == [stats[p] EXCEPT !.failed = @ + 1]
    IN IF Item(p).operation # "delete"
       THEN /\ pc' = [pc EXCEPT ![p] = "removeFailed"]
            /\ stats' = [stats EXCEPT ![p] = st]
            /\ UNCHANGED <<queue, conflictingNote, syncStatus, syncError, events, isSyncingRefS>>
       ELSE Continue(p, Tail(queue[p]), st)

\* The catch block of one entry: failed++, and a non-delete entry whose error
\* message contains "404" is removed from the queue (one more await).
Failed(p, message) ==
    LET st == [stats[p] EXCEPT !.failed = @ + 1]
    IN IF Includes(message, "404") /\ Item(p).operation # "delete"
       THEN /\ pc' = [pc EXCEPT ![p] = "removeFailed"]
            /\ stats' = [stats EXCEPT ![p] = st]
            /\ UNCHANGED <<queue, conflictingNote, syncStatus, syncError, events, isSyncingRefS>>
       ELSE Continue(p, Tail(queue[p]), st)

\* The remote call of the current entry: updateNoteOnServer(resolvedNote) in the
\* conflict branch, else createNoteOnServer / updateNoteOnServer /
\* deleteNoteOnServer.
Remote(p) ==
    /\ pc[p] = "remote"
    /\ LET item == Item(p)
           conflict == conflictingNote[p] # NoNote
           resolvedNote == getResolutionStrategy(item.note, conflictingNote[p], Now)
           stamped == conflict /\ resolvedNote # item.note
       IN \E answer \in Answers :
            \/ /\ answer = "ok"
               /\ conflict
               /\ server' = updateNoteOnServer(server, item.noteId, resolvedNote)
               /\ clock' = IF stamped THEN Now ELSE clock
               /\ queue' = [queue EXCEPT ![p] =
                              <<[item EXCEPT !.note = resolvedNote]>> \o Tail(queue[p])]
               /\ pc' = [pc EXCEPT ![p] = "updateNoteLocal"]
               /\ response' = [response EXCEPT ![p] = NoResponse]
               /\ UNCHANGED <<conflictingNote, stats, syncStatus, syncError, events, isSyncingRefS>>
            \/ /\ answer = "ok"
               /\ ~conflict
               /\ item.operation = "create"
               /\ item.noteId \notin DOMAIN server
               /\ server' = createNoteOnServer(server, item.noteId, item.note)
               /\ pc' = [pc EXCEPT ![p] = "updateNoteLocal"]
               /\ response' = [response EXCEPT ![p] = NoResponse]
               /\ UNCHANGED <<clock, queue, conflictingNote, stats, syncStatus, syncError, events,
                              isSyncingRefS>>
            \/ /\ answer = "ok"
               /\ ~conflict
               /\ item.operation = "create"
               /\ item.noteId \in DOMAIN server
               \* the id is the primary key: the POST is rejected
               /\ LET resp == [status |-> "409", message |-> "duplicate key"]
                  IN /\ response' = [response EXCEPT ![p] = resp]
                     /\ Failed(p, ErrorOf(resp, "Create note"))
               /\ UNCHANGED <<server, clock>>
            \/ /\ answer = "ok"
               /\ ~conflict
               /\ item.operation = "update"
               /\ server' = updateNoteOnServer(server, item.noteId, item.note)
               /\ pc' = [pc EXCEPT ![p] = "updateNoteLocal"]
               /\ response' = [response EXCEPT ![p] = NoResponse]
               /\ UNCHANGED <<clock, queue, conflictingNote, stats, syncStatus, syncError, events,
                              isSyncingRefS>>
            \/ /\ answer \in {"ok", "notFound"}
               /\ item.operation = "delete"
               /\ server' = deleteNoteOnServer(server, item.noteId)
               /\ pc' = [pc EXCEPT ![p] = "removeSyncQueueItem"]
               /\ response' = [response EXCEPT ![p] = NoResponse]
               /\ UNCHANGED <<clock, queue, conflictingNote, stats, syncStatus, syncError, events,
                              isSyncingRefS>>
            \/ /\ answer = "failed" \/ (answer = "notFound" /\ item.operation # "delete")
               /\ clock' = IF stamped THEN Now ELSE clock
               /\ \E resp \in Responses(answer) :
                    /\ response' = [response EXCEPT ![p] = resp]
                    /\ Failed(p, ErrorOf(resp, OperationName(item.operation, conflict)))
               /\ UNCHANGED server
    /\ UNCHANGED <<passes, dbVars, envVars, isSyncingRefN, syncTimeout, retryTimer, drained,
                   pullVars>>

\* await updateNoteLocal({ ...note, synced: true }); in the conflict branch
\* stats.conflicts++ follows before the next await.
UpdateNoteLocal(p) ==
    /\ pc[p] = "updateNoteLocal"
    /\ LET syncedNote == [Item(p).note EXCEPT !.synced = TRUE]
       IN /\ notes' = Put(notes, Item(p).noteId, syncedNote)
          /\ syncQueue' = IF updateNoteQueues(syncedNote)
                          THEN addToSyncQueue(syncQueue, nextKey, "update",
                                              Item(p).noteId, syncedNote, clock)
                          ELSE syncQueue
          /\ nextKey' = IF updateNoteQueues(syncedNote) THEN nextKey + 1 ELSE nextKey
    /\ stats' = IF conflictingNote[p] # NoNote
                THEN [stats EXCEPT ![p].conflicts = @ + 1] ELSE stats
    /\ pc' = [pc EXCEPT ![p] = "removeSyncQueueItem"]
    /\ UNCHANGED <<passes, server, envVars, clock, hookVars, queue, drained, conflictingNote,
                   response, pullVars>>

\* A loop that counts every entry it removes as synced, a conflict too: the
\* variant that C40 tells apart from RemoveSyncQueueItem.
RemoveSyncQueueItemCountsAll(p) ==
    /\ pc[p] = "removeSyncQueueItem"
    /\ QueueWritable
    /\ syncQueue' = removeSyncQueueItem(syncQueue, Item(p).id)
    /\ Continue(p, Tail(queue[p]), [stats[p] EXCEPT !.synced = @ + 1])
    /\ UNCHANGED <<passes, notes, nextKey, server, envVars, clock, isSyncingRefN, drained,
                   syncTimeout, retryTimer, response, pullVars>>

\* await removeSyncQueueItem(item.id); outside the conflict branch
\* stats.synced++ follows.
RemoveSyncQueueItem(p) ==
    /\ pc[p] = "removeSyncQueueItem"
    /\ QueueWritable
    /\ syncQueue' = removeSyncQueueItem(syncQueue, Item(p).id)
    /\ Continue(p, Tail(queue[p]),
                IF conflictingNote[p] = NoNote
                THEN [stats[p] EXCEPT !.synced = @ + 1] ELSE stats[p])
    /\ UNCHANGED <<passes, notes, nextKey, server, envVars, clock, isSyncingRefN, drained,
                   syncTimeout, retryTimer, response, pullVars>>

\* await removeSyncQueueItem(item.id) of the catch block.
RemoveFailed(p) ==
    /\ pc[p] = "removeFailed"
    /\ QueueWritable
    /\ syncQueue' = removeSyncQueueItem(syncQueue, Item(p).id)
    /\ Continue(p, Tail(queue[p]), stats[p])
    /\ UNCHANGED <<passes, notes, nextKey, server, envVars, clock, isSyncingRefN, drained,
                   syncTimeout, retryTimer, response, pullVars>>

\* ------------------------------------------ the pull phase (pullNotesFromServer)
\* Server notes the first loop writes: those with no local counterpart in the
\* snapshot, and those newer than a local counterpart that is synced.
ToInsert(sn, ln) == {id \in DOMAIN sn : id \notin DOMAIN ln}
ToOverwrite(sn, ln) ==
    {id \in DOMAIN sn : /\ id \in DOMAIN ln
                        /\ sn[id].modified_at > ln[id].modified_at
                        /\ ln[id].synced}
\* Local notes the second loop deletes: synced in the snapshot and absent from
\* the listing.
ToDelete(sn, ln) == {id \in DOMAIN ln : id \notin DOMAIN sn /\ ln[id].synced}

\* Where the caller of pullNotesFromServer continues: performSync finishes
\* at once, syncNotes waits for reloadNotesFromDB, loadNotes for getAllNotes.
AfterPull(p) ==
    IF p = "sync" THEN "idle" ELSE IF p = "notes" THEN "reloadNotes" ELSE "loadLocal"

\* The pull of p goes on (at nextPc with the given locals) or returns (ret).
\* When the pull of performSync returns, the status becomes "synced" and the
\* finally block clears the guard of useSync.
PullStep(p, ret, nextPc, sn, ln, td, how) ==
    /\ pc' = [pc EXCEPT ![p] = IF ret THEN AfterPull(p) ELSE nextPc]
    /\ serverNotes' = [serverNotes EXCEPT ![p] = IF ret THEN EmptyMap ELSE sn]
    /\ localNotes' = [localNotes EXCEPT ![p] = IF ret THEN EmptyMap ELSE ln]
    /\ todo' = [todo EXCEPT ![p] = IF ret THEN {} ELSE td]
    /\ listing' = [listing EXCEPT ![p] = IF ret THEN "none" ELSE how]
    /\ syncStatus' = IF ret /\ p = "sync" THEN setSyncStatus("synced") ELSE syncStatus
    /\ isSyncingRefS' = IF ret /\ p = "sync" THEN FALSE ELSE isSyncingRefS
    /\ UNCHANGED <<isSyncingRefN, syncError, events, syncTimeout, retryTimer, pushVars>>

\* const serverNotes = await fetchNotes(USER_ID). A failed request throws,
\* except that fetchNotes returns [] when navigator.onLine is false.
FetchNotes(p) ==
    /\ pc[p] = "fetchNotes"
    /\ \E answer \in Answers :
         IF answer = "ok"
         THEN PullStep(p, FALSE, "getAllNotes", server, EmptyMap, {}, "fetched")
         ELSE IF configured /\ ~online
         THEN PullStep(p, FALSE, "getAllNotes", EmptyMap, EmptyMap, {}, "offline")
         ELSE PullStep(p, TRUE, "", EmptyMap, EmptyMap, {}, "none")
    /\ UNCHANGED <<passes, dbVars, server, envVars, clock>>

\* const localNotes = await getAllNotes(USER_ID). Iterations that write nothing
\* do not wait, so the pull continues at its first write.
GetAllNotes(p) ==
    /\ pc[p] = "getAllNotes"
    /\ LET sn == serverNotes[p]
           ln == getAllNotes(notes)
           first == ToInsert(sn, ln) \cup ToOverwrite(sn, ln)
           second == ToDelete(sn, ln)
       IN IF first # {}
          THEN PullStep(p, FALSE, "pullServer", sn, ln, first, listing[p])
          ELSE PullStep(p, second = {}, "pullDelete", sn, ln, second, listing[p])
    /\ UNCHANGED <<passes, dbVars, server, envVars, clock>>

\* One write of the first loop: addNoteLocal(syncedNote) for a note that is new
\* in the snapshot (addNote: store.add, which rejects a key that exists by now,
\* and addToSyncQueue("create")), updateNoteLocal(syncedNote) for a newer one.
\* A rejected add is caught by the try of pullNotesFromServer: it returns [].
PullServer(p) ==
    /\ pc[p] = "pullServer"
    /\ QueueWritable
    /\ \E id \in todo[p] :
         LET sn == serverNotes[p]
             ln == localNotes[p]
             syncedNote == Synced(sn[id])
             rest == todo[p] \ {id}
             second == ToDelete(sn, ln)
             isNew == id \notin DOMAIN ln
             rejected == isNew /\ id \in DOMAIN notes
             queues == IF isNew THEN TRUE ELSE updateNoteQueues(syncedNote)
         IN /\ queues /\ ~rejected => nextKey <= MaxKey
            /\ IF rejected
               THEN UNCHANGED dbVars
               ELSE /\ notes' = Put(notes, id,
                                    IF isNew THEN noteToAdd(syncedNote) ELSE syncedNote)
                    /\ syncQueue' =
                         IF queues
                         THEN addToSyncQueue(syncQueue, nextKey,
                                             IF isNew THEN "create" ELSE "update", id,
                                             IF isNew THEN noteToAdd(syncedNote)
                                             ELSE syncedNote, clock)
                         ELSE syncQueue
                    /\ nextKey' = IF queues THEN nextKey + 1 ELSE nextKey
            /\ IF rejected
               THEN PullStep(p, TRUE, "", sn, ln, {}, listing[p])
               ELSE IF rest # {}
               THEN PullStep(p, FALSE, "pullServer", sn, ln, rest, listing[p])
               ELSE PullStep(p, second = {}, "pullDelete", sn, ln, second, listing[p])
    /\ UNCHANGED <<passes, server, envVars, clock>>

\* One write of the second loop: await deleteNote(localNote.id, USER_ID)
\* (store.get, store.delete, and addToSyncQueue("delete", note) if the note was
\* found). localNotes is sorted by modified_at, newest first.
PullDelete(p) ==
    /\ pc[p] = "pullDelete"
    /\ QueueWritable
    /\ LET id == NewestOf(localNotes[p], todo[p])
           rest == todo[p] \ {id}
           found == id \in DOMAIN notes
       IN /\ found => nextKey <= MaxKey
          /\ notes' = Del(notes, id)
          /\ syncQueue' = IF found
                          THEN addToSyncQueue(syncQueue, nextKey, "delete", id,
                                              notes[id], clock)
                          ELSE syncQueue
          /\ nextKey' = IF found THEN nextKey + 1 ELSE nextKey
          /\ PullStep(p, rest = {}, "pullDelete", serverNotes[p], localNotes[p],
                      rest, listing[p])
    /\ UNCHANGED <<passes, server, envVars, clock>>

\* A syncNotes whose guard is not released when the pass ends.
ReloadNotesKeepsGuard ==
    /\ pc["notes"] = "reloadNotes"
    /\ pc' = [pc EXCEPT !["notes"] = "idle"]
    /\ UNCHANGED <<passes, dbVars, server, envVars, clock, hookVars, pushVars, pullVars>>

\* syncNotes: await reloadNotesFromDB(), then the finally block clears the
\* guard of useNotes.
ReloadNotes ==
    /\ pc["notes"] = "reloadNotes"
    /\ pc' = [pc EXCEPT !["notes"] = "idle"]
    /\ isSyncingRefN' = FALSE
    /\ UNCHANGED <<passes, dbVars, server, envVars, clock, isSyncingRefS, syncStatus, syncError, events,
                   syncTimeout, retryTimer, pushVars, pullVars>>

\* loadNotes: await getAllNotes(USER_ID), setNotes, then syncNotes() if online.
LoadLocal ==
    /\ pc["load"] = "loadLocal"
    /\ Handler(FALSE, syncNotesStarts(online), TRUE, syncStatus)
    /\ UNCHANGED <<dbVars, server, envVars, clock, syncTimeout, retryTimer, pushVars, pullVars>>

\* ------------------------------------------------------------------- Next
User ==
    \/ \E id \in Ids : createNote(id)
    \/ \E id \in Ids, e \in Edits : modifyNote(id, e[1], e[2])
    \/ \E id \in Ids : removeNote(id)
    \/ debounceFires

Environment ==
    \/ handleOnline
    \/ handleOffline
    \/ handleMessage
    \/ periodicSync
    \/ retryFires

OtherDevices ==
    \/ \E id \in Ids : remoteCreate(id, "Untitled", " ")
    \/ \E id \in Ids, e \in Edits : remoteEdit(id, e[1], e[2])
    \/ \E id \in Ids : remoteDelete(id)

Push ==
    \E p \in Passes :
       \/ GetSyncQueue(p)
       \/ CheckConflict(p)
       \/ Remote(p)
       \/ UpdateNoteLocal(p)
       \/ RemoveSyncQueueItem(p)
       \/ RemoveFailed(p)

Pull ==
    \/ \E p \in Procs : FetchNotes(p) \/ GetAllNotes(p) \/ PullServer(p) \/ PullDelete(p)
    \/ ReloadNotes
    \/ LoadLocal

\* ------------------------------------------------ the resolver on its own
\* The notes other code passes to the resolver: texts are sequences of words,
\* a title may be empty.
Bodies == {<<"Hello">>, <<"Hello", "world">>, <<"Bye">>}
LocalNotes ==
    [id : {1}, title : {"", "A"}, content : Bodies, modified_at : {1}, synced : BOOLEAN]
ServerNotes ==
    [id : {1}, title : {"A", "B"}, content : Bodies, modified_at : {1, 2}]
Strategies == {"local-wins", "server-wins", "merge", "manual"}

\* The result of one more call for the given local note, at the next instant.
Resolved(localNote, serverNote, userPreference, original, times) ==
    /\ clock' = Now
    /\ resolution' =
          [original |-> original, localNote |-> localNote, serverNote |-> serverNote,
           userPreference |-> userPreference, times |-> times,
           resolved |-> getResolutionStrategyFor(localNote, serverNote,
                                                 userPreference, Now)]
    /\ UNCHANGED <<passes, dbVars, server, online, configured, mounted, faults, usedIds,
                   remoteOps, hookVars, pc, pushVars, pullVars>>

\* getResolutionStrategy(localNote, serverNote, userPreference) is called.
resolve(localNote, serverNote, userPreference) ==
    /\ resolution = NoResolution
    /\ Resolved(localNote, serverNote, userPreference, localNote, 1)

\* The same pair is resolved once more.
resolveSamePair ==
    /\ resolution # NoResolution
    /\ resolution.times < MaxResolves
    /\ Resolved(resolution.localNote, resolution.serverNote,
                resolution.userPreference, resolution.original, resolution.times + 1)

\* The result is resolved again against the same remote note.
resolveResult ==
    /\ resolution # NoResolution
    /\ resolution.times < MaxResolves
    /\ Resolved(resolution.resolved, resolution.serverNote,
                resolution.userPreference, resolution.original, resolution.times + 1)

\* The hooks are unmounted: the cleanups of their effects run. useSync removes
\* its listeners and clears the 30 s interval; useNotes removes its listeners and
\* clears the timer syncTimeoutRef holds. Asynchronous functions that are
\* running go on, and so do timers nobody kept a handle of.
unmount ==
    /\ mounted
    /\ mounted' = FALSE
    /\ syncTimeout' = clearTimeout(syncTimeout)
    /\ UNCHANGED <<passes, dbVars, server, online, configured, faults, usedIds, remoteOps,
                   resolution, clock, isSyncingRefS, isSyncingRefN, syncStatus, syncError,
                   events, retryTimer, pc, pushVars, pullVars>>

\* IndexedDB rejects the request of a pass for the mutation queue.
StoreFaults == \E p \in Passes : GetSyncQueueFails(p)

Next == User \/ Environment \/ OtherDevices \/ Push \/ Pull \/ StoreFaults \/ unmount

Spec == Init /\ [][Next]_vars

\* The application is started online, the remote may fail, and, for the time
\* observed, neither the online event nor a useSync trigger (interval, service
\* worker message) occurs: every pass is one of useNotes.
InitN == Init /\ configured /\ online /\ faults
NextN == User \/ handleOffline \/ OtherDevices \/ Push \/ Pull
SpecN == InitN /\ [][NextN]_vars

\* Scenario A: the application is started offline, notes are created while
\* offline, then the device goes online and stays online, with a remote that
\* answers every request and that no other device changes.
createOffline(id) == ~online /\ createNote(id)
InitA == Init /\ configured /\ ~online /\ ~faults
NextA ==
    \/ \E id \in Ids : createOffline(id)
    \/ handleOnline
    \/ \E p \in Passes :
          \/ GetSyncQueue(p)
          \/ CheckConflict(p)
          \/ Remote(p)
          \/ UpdateNoteLocal(p)
          \/ RemoveSyncQueueItem(p)
          \/ FetchNotes(p)
          \/ GetAllNotes(p)
    \/ ReloadNotes
    \/ LoadLocal
SpecA == InitA /\ [][NextA]_vars

\* Progress. Both hooks are mounted, the remote may fail, the user creates
\* one note and the connection comes and goes. Every await of an activity ends: IndexedDB serves each transaction,
\* and the browser settles each fetch, with a response or with an error.
Activity(p) ==
    \/ /\ p \in Passes
       /\ \/ GetSyncQueue(p)
          \/ CheckConflict(p)
          \/ Remote(p)
          \/ UpdateNoteLocal(p)
          \/ RemoveSyncQueueItem(p)
          \/ RemoveFailed(p)
    \/ FetchNotes(p) \/ GetAllNotes(p) \/ PullServer(p) \/ PullDelete(p)
    \/ p = "notes" /\ ReloadNotes
    \/ p = "load" /\ LoadLocal
InitF == Init /\ configured /\ faults
NextF ==
    \/ createNote(1)
    \/ handleOnline
    \/ handleOffline
    \/ Push
    \/ Pull
\* The resolver called by other code, with any strategy, on any pair of notes.
InitM == Init /\ configured /\ online /\ ~faults
NextM ==
    \/ \E l \in LocalNotes, r \in ServerNotes, s \in Strategies : resolve(l, r, s)
    \/ resolveSamePair
    \/ resolveResult
SpecM == InitM /\ [][NextM]_vars

SpecF == InitF /\ [][NextF]_vars /\ \A p \in Procs : WF_vars(Activity(p))

\* The same, and IndexedDB may reject getSyncQueue. Every await ends, a timer
\* that is pending fires, and so does the 30 s interval while it exists; no
\* other trigger is bound to occur.
InitE == Init /\ configured /\ faults
NextE == NextF \/ StoreFaults \/ retryFires \/ periodicSync
SpecE ==
    /\ InitE
    /\ [][NextE]_vars
    /\ \A p \in Procs : WF_vars(Activity(p) \/ (p \in Passes /\ GetSyncQueueFails(p)))
    /\ WF_vars(retryFires)
    /\ WF_vars(periodicSync)

\* The gateway is not configured (NEXT_PUBLIC_SUPABASE_URL or SUPABASE_ANON_KEY
\* is missing): both hooks are mounted, the user creates one note and edits it,
\* the connection comes and goes and the 30 s interval fires. Every call of
\* the gateway fails, so the steps that follow a successful call never occur.
InitU == Init /\ ~configured /\ ~faults
NextU ==
    \/ createNote(1)
    \/ \E e \in Edits : modifyNote(1, e[1], e[2])
    \/ debounceFires
    \/ handleOnline
    \/ handleOffline
    \/ periodicSync
    \/ \E p \in Passes : GetSyncQueue(p) \/ CheckConflict(p) \/ Remote(p)
    \/ \E p \in Procs : FetchNotes(p)
    \/ ReloadNotes
    \/ LoadLocal
SpecU == InitU /\ [][NextU]_vars

\* Convergence. Both hooks are mounted, the device is and stays online, the
\* remote answers every request. The user creates at most one note, another
\* device adds at most one row to the remote, and then nobody changes
\* anything. The 30 s interval keeps firing and every await ends: a write
\* that waits behind the transactions of other activities is served in the end.
InitC == Init /\ configured /\ online /\ ~faults
NextC ==
    \/ createNote(1)
    \/ \E id \in Ids : remoteCreate(id, "Untitled", " ")
    \/ periodicSyncForever
    \/ \E p \in Passes :
          \/ GetSyncQueue(p)
          \/ CheckConflict(p)
          \/ Remote(p)
          \/ UpdateNoteLocal(p)
          \/ RemoveSyncQueueItem(p)
    \/ Pull
SpecC ==
    /\ InitC
    /\ [][NextC]_vars
    /\ \A p \in Procs : SF_vars(Activity(p))
    /\ WF_vars(periodicSyncForever)

\* Teardown. Both hooks are mounted, the device is online, the remote may fail and IndexedDB may reject
\* getSyncQueue; the user creates one note and edits it, and at any moment the
\* hooks may be unmounted.
InitT == Init /\ configured /\ online /\ faults
NextT ==
    \/ createNote(1)
    \/ \E e \in Edits : modifyNote(1, e[1], e[2])
    \/ debounceFires
    \/ periodicSync
    \/ retryFires
    \/ unmount
    \/ Push
    \/ Pull
    \/ StoreFaults
SpecT == InitT /\ [][NextT]_vars

\* ------------------------------------------------------------ the claims
\* The positions of a pass: its push phase and its pull phase.
PushPcs == {"getSyncQueue", "checkConflict", "remote", "updateNoteLocal",
            "removeSyncQueueItem", "removeFailed"}
PullPcs == {"fetchNotes", "getAllNotes", "pullServer", "pullDelete"}

\* The step is a write of the pull phase of p.
PullWrite(p) ==
    /\ pc[p] \in {"pullServer", "pullDelete"}
    /\ pc'[p] # pc[p] \/ todo'[p] # todo[p]

\* The step is the last one of the pull phase of p.
PullEnds(p) ==
    /\ pc[p] \in PullPcs
    /\ pc'[p] = AfterPull(p)

SameContent(a, b) == a.title = b.title /\ a.content = b.content

\* The entries of the queue q that belong to the record id.
EntriesOf(q, id) == SelectSeq(q, LAMBDA e : e.noteId = id)

\* C1: no write of a pull phase changes the title or the content of a local
\* record that is unsynced when the write is made.
C1_PullKeepsUnsyncedEdits ==
    [][\A p \in Procs : PullWrite(p) =>
         \A id \in DOMAIN notes :
            (~notes[id].synced /\ id \in DOMAIN notes')
               => SameContent(notes'[id], notes[id])]_vars

\* C2: at most one pass (push phase, then pull phase) is in flight, counting
\* the pass of useSync.performSync and the pass of useNotes.syncNotes.
C2_OnePassInFlight ==
    Cardinality({p \in Passes : pc[p] \in PushPcs \cup PullPcs}) <= 1

\* C3: a pull phase whose fetch of the remote listing failed (here: with the
\* device offline, where fetchNotes answers with an empty listing) writes
\* nothing to the local stores.
C3_FailedFetchLeavesStore ==
    [][\A p \in Procs : (PullWrite(p) /\ listing[p] = "offline") =>
         (notes' = notes /\ syncQueue' = syncQueue)]_vars

\* C4: whenever a step stores a local record with synced = true, the remote
\* holds a row with that id and with the same title and content. (Stated for
\* the runs in which no other device has changed the remote collection.)
C4_SyncedMeansRemoteHolds ==
    [][\A id \in DOMAIN notes' :
         (/\ remoteOps' = 0
          /\ notes'[id].synced
          /\ (id \notin DOMAIN notes \/ notes[id] # notes'[id]))
            => (id \in DOMAIN server /\ SameContent(server[id], notes'[id]))]_vars

\* C5 (scenario A): while the device is offline every record created has
\* exactly one queue entry, a create, and is unsynced; and when a pass started
\* by going online ends, the remote holds every such record with the local
\* title and content, the local record is synced and the queue is empty.
C5_ScenarioA ==
    [][/\ ~online' =>
            \A id \in DOMAIN notes' :
               /\ ~notes'[id].synced
               /\ Len(EntriesOf(syncQueue', id)) = 1
               /\ EntriesOf(syncQueue', id)[1].operation = "create"
       /\ \A p \in Passes : PullEnds(p) =>
            /\ syncQueue' = <<>>
            /\ \A id \in DOMAIN notes' :
                  /\ notes'[id].synced
                  /\ id \in DOMAIN server'
                  /\ SameContent(server'[id], notes'[id])]_vars

\* The current entry of p is an update in the conflict branch: checkConflict
\* returned a newer remote row whose content differs from the queued note's.
ConflictCase(p) ==
    /\ pc[p] \in {"remote", "updateNoteLocal", "removeSyncQueueItem"}
    /\ conflictingNote[p] # NoNote
    /\ Item(p).operation = "update"
    /\ Item(p).note.content # conflictingNote[p].content

\* C6 (scenario B): for a queued update in the conflict branch, the remote
\* call that succeeds on an existing row leaves the row with the local title
\* and content and the time of the resolution; the local write stores the
\* resolved note with synced = true and counts one conflict (and no synced
\* entry); the last step removes the entry from the queue and counts nothing.
C6_LocalWins ==
    [][\A p \in Passes : ConflictCase(p) =>
         LET id == Item(p).noteId
         IN /\ (/\ pc[p] = "remote"
                /\ pc'[p] = "updateNoteLocal"
                /\ id \in DOMAIN server)
                  => /\ id \in DOMAIN server'
                     /\ SameContent(server'[id], Item(p).note)
                     /\ SameContent(Head(queue'[p]).note, Item(p).note)
                     /\ server'[id].modified_at = Now
                     /\ Head(queue'[p]).note.modified_at = Now
            /\ (pc[p] = "updateNoteLocal" /\ pc'[p] # pc[p])
                  => /\ notes'[id] = [Item(p).note EXCEPT !.synced = TRUE]
                     /\ stats'[p] = [stats[p] EXCEPT !.conflicts = @ + 1]
                     /\ syncQueue' = syncQueue
            /\ (pc[p] = "removeSyncQueueItem" /\ pc'[p] # pc[p])
                  => /\ EntriesOf(syncQueue', id) =
                          SelectSeq(EntriesOf(syncQueue, id),
                                    LAMBDA e : e.id # Item(p).id)
                     /\ \A i \in 1..Len(syncQueue') : syncQueue'[i].id # Item(p).id
                     /\ Tail(queue[p]) # <<>> => stats'[p] = stats[p]]_vars

\* C6 happens: a pass has resolved a conflict of an update whose content
\* differs from the remote's, the remote row and the local record hold the
\* local content, the local record is synced, one conflict is counted.
C6_Witness ==
    \E p \in Passes :
       /\ ConflictCase(p)
       /\ pc[p] = "removeSyncQueueItem"
       /\ stats[p].conflicts = 1
       /\ Item(p).noteId \in DOMAIN notes
       /\ Item(p).noteId \in DOMAIN server
       /\ notes[Item(p).noteId].synced
       /\ SameContent(notes[Item(p).noteId], Item(p).note)
       /\ SameContent(server[Item(p).noteId], Item(p).note)

\* C7: when the push phase has applied an entry on the remote, no entry of the
\* same record with a smaller key is still in the queue.
C7_AppliedInKeyOrder ==
    \A p \in Passes :
       pc[p] \in {"updateNoteLocal", "removeSyncQueueItem"} =>
          \A i \in 1..Len(syncQueue) :
             ~(/\ syncQueue[i].noteId = Item(p).noteId
               /\ syncQueue[i].id < Item(p).id)

\* The keys of q increase strictly and its timestamps never decrease.
InOrder(q) ==
    \A i, j \in 1..Len(q) :
       i < j => (q[i].id < q[j].id /\ q[i].timestamp <= q[j].timestamp)

\* The entries of q whose key is in keys.
WithKeys(q, keys) == SelectSeq(q, LAMBDA e : e.id \in keys)
KeysOf(q) == {q[i].id : i \in 1..Len(q)}

\* C8: after every step the queue is in the order the mutations were made:
\* its keys increase strictly, the entries that were pending before the step
\* and still are keep their order and come first, and whatever the step adds
\* comes after them; a step that reads the queue gets exactly the pending
\* entries in that order and removes none.
C8_QueueOrder ==
    [][/\ InOrder(syncQueue')
       /\ LET kept == KeysOf(syncQueue) \cap KeysOf(syncQueue')
          IN /\ WithKeys(syncQueue', kept) = WithKeys(syncQueue, kept)
             /\ SubSeq(syncQueue', 1, Cardinality(kept)) = WithKeys(syncQueue, kept)
       /\ \A p \in Passes :
            (pc[p] = "getSyncQueue" /\ pc'[p] # pc[p])
               => (queue'[p] = syncQueue /\ syncQueue' = syncQueue)]_vars

\* C8 happens: a pass has just read a queue that holds entries of different
\* records and of different operations, and the entries are still pending.
C8_Witness ==
    \E p \in Passes :
       /\ pc[p] \in {"checkConflict", "remote"}
       /\ queue[p] = syncQueue
       /\ \E i, j \in 1..Len(queue[p]) :
             /\ i < j
             /\ queue[p][i].noteId # queue[p][j].noteId
             /\ queue[p][i].operation # queue[p][j].operation

\* C9: when a pull phase that fetched the listing ends, no record that was
\* synced in its local snapshot and is absent from the listing is in the local
\* store.
C9_DeletionPropagates ==
    [][\A p \in Procs : (PullEnds(p) /\ listing[p] = "fetched") =>
         \A id \in ToDelete(serverNotes[p], localNotes[p]) :
            id \notin DOMAIN notes']_vars

\* C10: no write of a pull phase removes or changes a local record that is
\* unsynced and whose id is not in the listing of that pull.
C10_PullKeepsUnsyncedAbsent ==
    [][\A p \in Procs : PullWrite(p) =>
         \A id \in DOMAIN notes :
            (~notes[id].synced /\ id \notin DOMAIN serverNotes[p])
               => (id \in DOMAIN notes' /\ SameContent(notes'[id], notes[id]))]_vars

\* C11: a write of a pull phase that changes a local record that is synced
\* when the write is made stores a value whose modified_at is strictly newer
\* than the one of the record it replaces.
C11_PullOverwritesOnlyWithNewer ==
    [][\A p \in Procs : PullWrite(p) =>
         \A id \in DOMAIN notes :
            (/\ notes[id].synced
             /\ id \in DOMAIN notes'
             /\ notes'[id] # notes[id])
               => notes'[id].modified_at > notes[id].modified_at]_vars

\* The step is one of the push phase or of the pull phase of p.
OrchestratorStep(p) ==
    /\ pc[p] \in PushPcs \cup PullPcs
    /\ pc'[p] # pc[p] \/ todo'[p] # todo[p]

\* C12: no step of the push phase or of the pull phase adds an entry to the
\* mutation queue.
C12_OrchestratorQueuesNothing ==
    [][\A p \in Procs : OrchestratorStep(p) =>
         KeysOf(syncQueue') \subseteq KeysOf(syncQueue)]_vars

\* C13: when a pull phase that fetched the listing ends after its writes, every
\* remote record of the listing that had no local counterpart in the snapshot
\* is in the local store with the remote title and content and synced = true.
C13_PullInsertsSynced ==
    [][\A p \in Procs :
         (/\ pc[p] \in {"pullServer", "pullDelete"}
          /\ PullEnds(p)
          /\ listing[p] = "fetched")
            => \A id \in ToInsert(serverNotes[p], localNotes[p]) :
                  /\ id \in DOMAIN notes'
                  /\ SameContent(notes'[id], serverNotes[p][id])
                  /\ notes'[id].synced]_vars

\* The remote call of p's current entry, outside the conflict branch, was
\* served as a success: the loop goes on to mark the record synced (create,
\* update) or to remove the entry (delete).
RemoteConfirmed(p) ==
    /\ pc[p] = "remote"
    /\ conflictingNote[p] = NoNote
    /\ pc'[p] \in {"updateNoteLocal", "removeSyncQueueItem"}

\* C14: an entry leaves the mutation queue only in the step of a push phase
\* that acknowledges its current entry, after the remote call or in the catch
\* of a NotFound answer to a non-delete; and a remote call that the push phase
\* takes as confirmed has applied the operation: after a create or an update
\* the remote holds the row with the entry's title and content, after a delete
\* it holds no such row.
C14_RemovedOnlyWhenSettled ==
    [][/\ \A k \in KeysOf(syncQueue) \ KeysOf(syncQueue') :
            \E p \in Passes :
               /\ pc[p] \in {"removeSyncQueueItem", "removeFailed"}
               /\ pc'[p] # pc[p]
               /\ Item(p).id = k
               /\ pc[p] = "removeFailed" => Item(p).operation # "delete"
       /\ \A p \in Passes : RemoteConfirmed(p) =>
            LET id == Item(p).noteId
            IN IF Item(p).operation = "delete"
               THEN id \notin DOMAIN server'
               ELSE /\ id \in DOMAIN server'
                    /\ SameContent(server'[id], Item(p).note)]_vars

\* p takes a step out of the remote call of its current entry.
RemoteStep(p) ==
    /\ pc[p] = "remote"
    /\ pc'[p] # pc[p] \/ queue'[p] # queue[p]

\* The remote call of p's current entry fails and the entry is not acknowledged:
\* certainly so when the browser is offline or the gateway is not configured.
TransientFailure(p) ==
    /\ RemoteStep(p)
    /\ \/ ~online \/ ~configured
       \/ pc'[p] \notin {"updateNoteLocal", "removeSyncQueueItem", "removeFailed"}

\* C15: a transient failure of the remote call of an entry leaves the mutation
\* queue as it is, adds one to the failed counter of the push phase and moves the
\* loop to the next entry; the pass never comes back to an entry it has left, an
\* entry leaves the queue or changes only as the current entry of a pass that
\* acknowledges it, and a pass that starts drains the whole queue, so the entry is
\* still queued with the same snapshot after the pass and the next pass attempts it.
C15_TransientFailureKeepsEntry ==
    [][\A p \in Passes :
         /\ TransientFailure(p) =>
              /\ syncQueue' = syncQueue
              /\ stats'[p] = [stats[p] EXCEPT !.failed = @ + 1]
              /\ queue'[p] = Tail(queue[p])
         /\ (pc[p] # "getSyncQueue" /\ queue'[p] # queue[p]) =>
              /\ pc[p] \in {"remote", "removeSyncQueueItem", "removeFailed"}
              /\ KeysOf(queue'[p]) \subseteq KeysOf(queue[p])
         /\ (pc[p] = "getSyncQueue" /\ pc'[p] # pc[p]) => queue'[p] = syncQueue
         /\ \A i \in 1..Len(syncQueue) :
              \/ \E j \in 1..Len(syncQueue') : syncQueue'[j] = syncQueue[i]
              \/ \E q \in Passes :
                    /\ pc[q] \in {"removeSyncQueueItem", "removeFailed"}
                    /\ Item(q).id = syncQueue[i].id]_vars

\* A pass of useNotes has ended whose only entry, a create, failed without
\* being acknowledged: the entry is still in the queue with its snapshot.
C15_Witness ==
    /\ pc["notes"] = "idle"
    /\ stats["notes"] = [synced |-> 0, failed |-> 1, conflicts |-> 0]
    /\ nextKey = 2
    /\ Len(syncQueue) = 1
    /\ syncQueue[1].operation = "create"
    /\ syncQueue[1].noteId \notin DOMAIN server

\* C17: when the remote call of a create or update entry is answered 404, the
\* catch adds one to the failed counter and goes on to remove the entry; when
\* the call of a delete entry fails, or a call fails otherwise, the queue stays
\* as it is and the loop moves to the next entry.
C17_NotFoundAcknowledged ==
    [][\A p \in Passes :
         (RemoteStep(p) /\ response'[p] # NoResponse) =>
            /\ stats'[p].failed = stats[p].failed + 1
            /\ syncQueue' = syncQueue
            /\ IF response'[p].status = "404" /\ Item(p).operation # "delete"
               THEN pc'[p] = "removeFailed"
               ELSE queue'[p] = Tail(queue[p])]_vars

CreateCall(p) ==
    /\ RemoteStep(p)
    /\ Item(p).operation = "create"
    /\ conflictingNote[p] = NoNote

\* C18: with no other device writing, every call of the gateway's create for a
\* queue entry is the first one for that entry (the remote holds no row of the
\* record yet, and the entry is still queued), and the local write that follows
\* a create stores the record with synced = true.
C18_CreateCalledOnce ==
    [][\A p \in Passes :
         /\ (CreateCall(p) /\ remoteOps = 0) =>
              /\ Item(p).noteId \notin DOMAIN server
              /\ Item(p).id \in KeysOf(syncQueue)
         /\ (pc[p] = "updateNoteLocal" /\ pc'[p] # pc[p]) =>
              notes'[Item(p).noteId].synced]_vars

\* The useSync pass returns from its pull phase: the finally block of
\* performSync runs in this step.
PerformSyncFinally ==
    /\ pc["sync"] \in PullPcs
    /\ pc'["sync"] = "idle"

\* C19: the guard of useSync is set in the step that starts a useSync pass, and
\* once set it is cleared only in the step in which that pass returns from its
\* pull phase (the finally block of performSync).
C19_GuardClearedOnlyByFinally ==
    [][/\ (pc["sync"] = "idle" /\ pc'["sync"] # "idle") => isSyncingRefS'
       /\ (isSyncingRefS /\ ~isSyncingRefS') => PerformSyncFinally]_vars

\* The reentrancy guard of the hook that runs pass p.
Guard(p) == IF p = "sync" THEN isSyncingRefS ELSE isSyncingRefN

\* The key generator of the mutation queue has reached the bound of the model:
\* a step that has to add an entry cannot be taken.
KeysExhausted == nextKey > MaxKey

PullStarts(p) ==
    /\ pc[p] = "fetchNotes"
    /\ pc'[p] # pc[p]

\* C21: a pull phase that starts while the mutation queue holds entries belongs
\* to a pass whose push phase has run, and a pull phase that ends is followed in
\* its caller by a reload of the in-memory view from the local store.
C21_PushBeforePull ==
    [][\A p \in Procs :
         /\ (PullStarts(p) /\ syncQueue # <<>>) => p \in Passes
         /\ PullEnds(p) => pc'[p] \in {"reloadNotes", "loadLocal"}]_vars

\* getNote: store.get(id) on the store "notes".
getNote(ns, id) == ns[id]

\* C22: when the first loop of a pull phase stores a record (the remote row
\* with synced = true, by addNote for a new id and by updateNote otherwise),
\* reading the record back by its id returns the record that was passed,
\* its synced flag included.
C22_StoredReadsBack ==
    [][\A p \in Procs :
         (pc[p] = "pullServer" /\ PullWrite(p)) =>
            \A id \in DOMAIN notes' :
               (id \notin DOMAIN notes \/ notes'[id] # notes[id])
                  => getNote(notes', id) = Synced(serverNotes[p][id])]_vars

\* C23: whenever the status of useSync is "error" it later is something else,
\* whether or not a trigger occurs: the timer set with the status demotes it.
\* (A run that has used all the passes of the model is left out.)
C23_ErrorIsDemoted ==
    (syncStatus = "error") ~> (syncStatus # "error" \/ passes = MaxPasses)

\* The pass p ends in this step.
PassEnds(p) ==
    /\ pc[p] # "idle"
    /\ pc'[p] = "idle"

\* C24: when a pass ends and leaves the status "synced", its push phase counted
\* no failed entry and every local record has synced = true.
C24_SyncedMeansNothingPending ==
    [][\A p \in Passes :
         (PassEnds(p) /\ syncStatus' = "synced") =>
            /\ stats'[p].failed = 0
            /\ \A id \in DOMAIN notes' : notes'[id].synced]_vars

\* A mutation of the user is stored in this step (only these steps take a queue
\* key and advance the clock); op is the operation it queues.
UserMutation(op) ==
    /\ nextKey' = nextKey + 1
    /\ clock' = clock + 1
    /\ syncQueue'[Len(syncQueue')].operation = op

\* C25: while online, modifyNote starts no pass and leaves exactly one debounce
\* timer pending, however many were set before; a timer that fires calls
\* syncNotes once, which starts a pass unless one of useNotes is running;
\* createNote and removeNote cancel the pending timer and call syncNotes in the
\* same step.
C25_DebouncedEdits ==
    [][/\ (online /\ UserMutation("update")) =>
            /\ syncTimeout' = 1
            /\ pc' = pc
            /\ passes' = passes
       /\ (online /\ (UserMutation("create") \/ UserMutation("delete"))) =>
            /\ syncTimeout' = 0
            /\ isSyncingRefN'
            /\ ~isSyncingRefN => (pc'["notes"] = "getSyncQueue" /\ passes' = passes + 1)
       /\ (syncTimeout' < syncTimeout /\ dbVars' = dbVars) =>
            /\ syncTimeout' = 0
            /\ passes' <= passes + 1
            /\ (online /\ ~isSyncingRefN) =>
                  (pc'["notes"] = "getSyncQueue" /\ passes' = passes + 1)]_vars

\* Two edits have been stored while online, the second before the timer of the
\* first fired: one timer is pending.
C25_Witness ==
    /\ online
    /\ syncTimeout = 1
    /\ Len(SelectSeq(syncQueue, LAMBDA e : e.operation = "update")) = 2
    /\ passes = 1

C27_LocalWinsIdempotent ==
    (resolution # NoResolution /\ resolution.userPreference = "local-wins") =>
       [resolution.resolved EXCEPT !.modified_at = resolution.original.modified_at]
          = resolution.original

\* A pair in conflict has been resolved three times under local-wins, results
\* included.
C27_Witness ==
    /\ resolution # NoResolution
    /\ resolution.userPreference = "local-wins"
    /\ resolution.times = MaxResolves
    /\ resolution.localNote # resolution.original
    /\ detectConflict(resolution.original, resolution.serverNote)

\* The pair resolved last was resolved under the merge strategy.
Merged == resolution # NoResolution /\ resolution.userPreference = "merge"

\* C28: under merge, when the remote content occurs in the local content, the
\* result has the local content, without a separator added, and the local
\* title.
C28_MergeKeepsSuperset ==
    (Merged /\ includes(resolution.localNote.content, resolution.serverNote.content)) =>
       /\ resolution.resolved.content = resolution.localNote.content
       /\ resolution.resolved.title = resolution.localNote.title

C29_ConflictBranchIffDetected ==
    [][\A p \in Passes :
         /\ (pc[p] = "updateNoteLocal" /\ stats'[p].conflicts = stats[p].conflicts + 1)
               => detectConflict(Item(p).note, conflictingNote[p])
         /\ (RemoteConfirmed(p) /\ Item(p).operation # "delete" /\ remoteOps = 0)
               => ~(/\ Item(p).noteId \in DOMAIN server
                    /\ detectConflict(Item(p).note, server[Item(p).noteId]))]_vars

\* The run of syncNotesWithServer of p fails in this step at its read of the
\* mutation queue.
QueueReadFails(p) ==
    /\ pc[p] = "getSyncQueue"
    /\ pc'[p] \notin {"getSyncQueue", "checkConflict", "remote"}
    /\ queue'[p] = queue[p]
    /\ stats'[p] = stats[p]
    /\ syncQueue # <<>>

\* C31: when the read of the mutation queue fails, the run has dispatched
\* sync:start and then sync:error and nothing else, no remote call is made, the
\* queue and the local records are unchanged, the failure reaches the caller (the
\* pass ends without a pull phase), and the status is "error" with the message
\* of the failure as syncError.
C31_StoreFailureIsFatal ==
    [][\A p \in Passes :
         QueueReadFails(p) =>
            /\ events'[p] = <<"sync:start", "sync:error">>
            /\ UNCHANGED <<server, response, syncQueue, notes>>
            /\ pc'[p] = "idle"
            /\ syncStatus' = "error"
            /\ syncError' = StoreError]_vars

\* A pass has failed at its read of a queue that holds an entry.
C31_Witness ==
    \E p \in Passes :
       /\ events[p] = <<"sync:start", "sync:error">>
       /\ pc[p] = "idle"
       /\ syncStatus = "error"
       /\ syncError = StoreError
       /\ syncQueue # <<>>

\* C32: after the teardown of the hooks no timer they created fires: neither
\* the 5 s timer of performSync's catch nor a debounce timer of modifyNote
\* ends after the hooks are unmounted.
C32_NoTimerAfterTeardown ==
    [][~mounted =>
         /\ retryTimer => retryTimer'
         /\ syncTimeout' >= syncTimeout]_vars

\* C33: while the gateway is not configured no pass attempts a queue entry:
\* the counters of every push phase show no failed entry.
C33_UnconfiguredAttemptsNothing ==
    ~configured => \A p \in Passes : stats[p].failed = 0

\* The mutation queue q holds a delete entry for id.
DeletePending(q, id) ==
    \E i \in 1..Len(q) : q[i].noteId = id /\ q[i].operation = "delete"

\* C34: a write of a pull phase never puts back a record the user deleted
\* while the delete entry is still in the mutation queue: a record that a pull
\* adds to the local store has no pending delete entry.
C34_PullKeepsDeletedAbsent ==
    [][\A p \in Procs :
         PullWrite(p) =>
            \A id \in DOMAIN notes' :
               id \notin DOMAIN notes => ~DeletePending(syncQueue, id)]_vars

\* C35: every local record with synced = false has a pending entry for its id
\* in the mutation queue.
C35_UnsyncedHasEntry ==
    \A id \in DOMAIN notes :
       ~notes[id].synced => EntriesOf(syncQueue, id) # <<>>

\* C36: the write the push phase makes after a remote call never replaces a
\* local record that is newer than the snapshot of the entry: the record keeps
\* its title, its content and synced = false.
C36_PushKeepsLaterEdit ==
    [][\A p \in Passes :
         (/\ pc[p] = "updateNoteLocal"
          /\ pc'[p] # "updateNoteLocal"
          /\ Item(p).noteId \in DOMAIN notes
          /\ notes[Item(p).noteId].modified_at > Item(p).note.modified_at
          /\ ~notes[Item(p).noteId].synced)
            => notes'[Item(p).noteId] = notes[Item(p).noteId]]_vars

\* The local store and the remote agree and nothing is left to push.
Converged ==
    /\ syncQueue = <<>>
    /\ \A id \in DOMAIN notes : notes[id].synced
    /\ DOMAIN notes = DOMAIN server
    /\ \A id \in DOMAIN notes : SameContent(notes[id], server[id])

\* C37: once the user and the other devices have stopped (every run of the
\* specification gets there), the passes the interval keeps starting bring the
\* system to a state where the queue is empty, every record is synced and the
\* local store holds the records of the remote, and it stays so. (A run in
\* which the key generator of the model is exhausted is left out.)
C37_Convergence == <>[](Converged \/ KeysExhausted)

\* C38: when the push phase calls createNoteOnServer for an entry, the remote
\* holds no row with the id of the entry.
C38_CreateOnlyForAbsentId ==
    [][\A p \in Passes : CreateCall(p) => Item(p).noteId \notin DOMAIN server]_vars

\* C39: when the 5 s timer of performSync's catch fires, it changes the status
\* only if the status is "error": a status that has become "syncing" or
\* "synced" meanwhile is left as it is.
C39_RetryOnlyDemotesError ==
    [][(retryTimer /\ ~retryTimer') =>
          (syncStatus = "error" \/ syncStatus' = syncStatus)]_vars

\* The entries the counters of the push phase of p account for.
Counted(p) == stats[p].synced + stats[p].failed + stats[p].conflicts

====
